---- MODULE Spec2Model ----
(***************************************************************************)
(* Model of wirelessNet.cc: the construction of the ad hoc topology (a     *)
(* parent AdHocNetwork of backbone routers, one child AdHocNetwork per     *)
(* router), the addressing, the mobility set-up, the OnOff traffic loop    *)
(* and the dump of the flow statistics to data.csv and resumen.csv.        *)
(*                                                                         *)
(* Node ids are 0-based as in the program; node id x is nodeList[x + 1].   *)
(* Device and interface indices are 0-based too: interface f of a node is  *)
(* node.ifs[f + 1].  Random positions drawn by the position allocator are  *)
(* left out: no statement checked here reads them.                         *)
(***************************************************************************)
EXTENDS Integers, Sequences, FiniteSets, TLC

VARIABLES pc, backboneNodes, infraNodes, stopTime, nodeList, myadhoc,
          clusters, i, irands, apps, stats, it, pending, valores,
          cantidades, myfile, resumenfile

vars == <<pc, backboneNodes, infraNodes, stopTime, nodeList, myadhoc,
          clusters, i, irands, apps, stats, it, pending, valores,
          cantidades, myfile, resumenfile>>

\* ------------------------------------------------------------------ bounds
MaxBackbone == 3
MaxInfra == 3
MaxNodes == 5
MaxFlows == 2

\* --------------------------------------------------------------- constants
port == 9
StartSeconds == 3
StopTimes == {5, 10}

\* An Ipv4Address is its four octets; a 32-bit word is its 32 bits, most
\* significant first.
Ipv4(a, b, c, d) == <<a, b, c, d>>
BackboneBase == Ipv4(192, 168, 0, 0)
BackboneMask == Ipv4(255, 255, 255, 0)
Loopback == Ipv4(127, 0, 0, 1)

Last(s) == s[Len(s)]

OctetBits(o) == [k \in 1..8 |-> (o \div (2 ^ (8 - k))) % 2]
WordOfAddress(addr) ==
  OctetBits(addr[1]) \o OctetBits(addr[2]) \o OctetBits(addr[3]) \o OctetBits(addr[4])
WordOfInt(n) == [k \in 1..32 |-> IF k = 1 THEN 0 ELSE (n \div (2 ^ (32 - k))) % 2]
OctetAt(w, o) ==
  LET b == 8 * (o - 1)
  IN  128 * w[b + 1] + 64 * w[b + 2] + 32 * w[b + 3] + 16 * w[b + 4]
      + 8 * w[b + 5] + 4 * w[b + 6] + 2 * w[b + 7] + w[b + 8]
AddressOfWord(w) == <<OctetAt(w, 1), OctetAt(w, 2), OctetAt(w, 3), OctetAt(w, 4)>>
ShiftRight(w, s) == [k \in 1..32 |-> IF k <= s THEN 0 ELSE w[k - s]]
ShiftLeft(w, s) == [k \in 1..32 |-> IF k + s <= 32 THEN w[k + s] ELSE 0]
BitOr(w1, w2) == [k \in 1..32 |-> IF w1[k] = 1 \/ w2[k] = 1 THEN 1 ELSE 0]
BitAnd(w1, w2) == [k \in 1..32 |-> IF w1[k] = 1 /\ w2[k] = 1 THEN 1 ELSE 0]
BitNot(w) == [k \in 1..32 |-> 1 - w[k]]
AllOnes == [k \in 1..32 |-> 1]
AllZeros == [k \in 1..32 |-> 0]
\* ++w on 32 bits, wrapping.
Increment(w) ==
  IF \A k \in 1..32 : w[k] = 1 THEN AllZeros
  ELSE LET z == CHOOSE k \in 1..32 : w[k] = 0 /\ \A m \in (k + 1)..32 : w[m] = 1
       IN  [k \in 1..32 |-> IF k < z THEN w[k] ELSE IF k = z THEN 1 ELSE 0]
\* --w on 32 bits, wrapping.
Decrement(w) ==
  IF \A k \in 1..32 : w[k] = 0 THEN AllOnes
  ELSE LET z == CHOOSE k \in 1..32 : w[k] = 1 /\ \A m \in (k + 1)..32 : w[m] = 0
       IN  [k \in 1..32 |-> IF k < z THEN w[k] ELSE IF k = z THEN 0 ELSE 1]
\* w1 <= w2 as unsigned 32-bit numbers.
LessEq(w1, w2) ==
  \/ w1 = w2
  \/ \E k \in 1..32 : w1[k] < w2[k] /\ \A m \in 1..(k - 1) : w1[m] = w2[m]

\* ---------------------------------------------------------- address helper
\* The helper's fields are unsigned 32-bit words.  abort is the message the
\* helper stopped the program with, "" while it has not.
\* A default-constructed helper: every field 0xffffffff.
DefaultHelper ==
  [abort |-> "", network |-> AllOnes, address |-> AllOnes, base |-> AllOnes,
   shift |-> AllOnes, max |-> AllOnes]

\* Number of host bits of a mask: the position of its lowest set bit; a
\* mask without a set bit stops the program.
NumAddressBits(mask) ==
  LET w == WordOfAddress(mask)
  IN  IF \A k \in 1..32 : w[k] = 0 THEN [abort |-> "bad mask", bits |-> 0]
      ELSE [abort |-> "",
            bits |-> 32 - (CHOOSE k \in 1..32 : w[k] = 1 /\ \A m \in (k + 1)..32 : w[m] = 0)]

\* ipAddrs.SetBase(network, mask): host numbers start at 0.0.0.1 (the default
\* third argument) and end at (1 << shift) - 2, computed on 32 bits; the
\* network number is kept shifted down.  A network with bits outside the
\* mask stops the program.
SetBase(network, mask) ==
  LET nw == WordOfAddress(network)
      mw == WordOfAddress(mask)
      nb == NumAddressBits(mask)
      h == [abort |-> "", network |-> ShiftRight(nw, nb.bits),
            address |-> WordOfInt(1), base |-> WordOfInt(1),
            shift |-> WordOfInt(nb.bits),
            max |-> Decrement(Decrement(ShiftLeft(WordOfInt(1), nb.bits)))]
  IN  IF BitAnd(nw, BitNot(mw)) # AllZeros
      THEN [h EXCEPT !.abort = "inconsistent network and mask"]
      ELSE IF nb.abort # "" THEN [h EXCEPT !.abort = nb.abort]
      ELSE h

\* The shift count of a helper whose base is set (0..31).
ShiftCount(h) ==
  16 * h.shift[28] + 8 * h.shift[29] + 4 * h.shift[30] + 2 * h.shift[31] + h.shift[32]

\* ipAddrs.NewAddress(): (m_network << m_shift) | m_address, the program
\* stopping when the host numbers of the network are used up.
NewAddress(h) ==
  IF ~LessEq(h.address, h.max)
  THEN [abort |-> "address overflow", addr |-> Ipv4(0, 0, 0, 0)]
  ELSE [abort |-> "",
        addr |-> AddressOfWord(BitOr(ShiftLeft(h.network, ShiftCount(h)), h.address))]

NewNetworkSkipped(h) == h

\* ipAddrs.NewNetwork(): next network number, host numbers restart.
NewNetwork(h) == [h EXCEPT !.network = Increment(h.network), !.address = h.base]

\* ------------------------------------------------------------------- nodes
NewNode == [devs |-> <<>>, stack |-> 0, ifs |-> <<>>,
            mob |-> [kind |-> "none", ref |-> 0], apps |-> <<>>]

\* backbone.Create(n): n fresh nodes appended to the global node list; the
\* container holds their ids.
RECURSIVE CreateNodes(_, _)
CreateNodes(nl, n) == IF n = 0 THEN nl ELSE CreateNodes(Append(nl, NewNode), n - 1)

CreatedIds(nl, n) == [x \in 1..n |-> Len(nl) + x - 1]

\* NodeContainer::GetGlobal(): the ids of the nodes that exist at the call.
GetGlobal(nl) == [x \in 1..Len(nl) |-> x - 1]

AddDevice(node, type, net) ==
  [node EXCEPT !.devs = Append(@, [type |-> type, net |-> net])]

\* helper.Install(container): one device of the given type on every node of
\* the container, in container order.
RECURSIVE InstallDevices(_, _, _, _)
InstallDevices(nl, container, type, net) ==
  IF container = <<>> THEN nl
  ELSE LET id == Head(container)
       IN  InstallDevices([nl EXCEPT ![id + 1] = AddDevice(@, type, net)],
                          Tail(container), type, net)

\* The device container an Install returns: (node, device index) pairs.
DevicesOf(nl, container) ==
  [x \in 1..Len(container) |->
     [node |-> container[x], dev |-> Len(nl[container[x] + 1].devs) - 1]]

\* csma.Install(NodeContainer::GetGlobal())
CsmaInstall(nl) == InstallDevices(nl, GetGlobal(nl), "csma", 0)

\* internet.Install(node): the first call aggregates the stack, which brings
\* the loopback device and interface 0; stack counts the calls.
InternetInstallNode(node) ==
  IF node.stack = 0
  THEN [node EXCEPT !.stack = 1,
                    !.devs = Append(@, [type |-> "lo", net |-> 0]),
                    !.ifs = Append(@, [dev |-> Len(node.devs),
                                       addrs |-> <<Loopback>>])]
  ELSE [node EXCEPT !.stack = @ + 1]

RECURSIVE InternetInstall(_, _)
InternetInstall(nl, container) ==
  IF container = <<>> THEN nl
  ELSE InternetInstall([nl EXCEPT ![Head(container) + 1] = InternetInstallNode(@)],
                       Tail(container))

\* Interface index of a device on a node, -1 when it has none.
InterfaceForDevice(node, dev) ==
  IF \E f \in 1..Len(node.ifs) : node.ifs[f].dev = dev
  THEN (CHOOSE f \in 1..Len(node.ifs) : node.ifs[f].dev = dev) - 1
  ELSE -1

\* The addresses the address generator has on its list: every address
\* handed out so far.
Allocated(nl) ==
  UNION { UNION { {nl[n].ifs[f].addrs[a] : a \in DOMAIN nl[n].ifs[f].addrs} :
                  f \in {g \in DOMAIN nl[n].ifs :
                           nl[n].devs[nl[n].ifs[g].dev + 1].type # "lo"} } :
          n \in DOMAIN nl }

\* ipAddrs.Assign(devices): per device, in order, the node's interface for
\* the device is created when missing and gets the helper's next address.
\* The program stops on a node without a stack, on a used-up network and on
\* an address handed out twice; abort is the message, "" when it went on.
RECURSIVE Assign(_, _, _, _)
Assign(nl, h, devices, done) ==
  IF devices = <<>> \/ h.abort # ""
  THEN [abort |-> h.abort, nodeList |-> nl, ipAddrs |-> h, interfaces |-> done]
  ELSE LET d == Head(devices)
           node == nl[d.node + 1]
           old == InterfaceForDevice(node, d.dev)
           withIf == IF old = -1
                     THEN [node EXCEPT !.ifs = Append(@, [dev |-> d.dev, addrs |-> <<>>])]
                     ELSE node
           f == IF old = -1 THEN Len(node.ifs) ELSE old
           new == NewAddress(h)
           node2 == [withIf EXCEPT !.ifs[f + 1].addrs = Append(@, new.addr)]
           stop == IF node.stack = 0 THEN "node without IPv4 stack"
                   ELSE IF new.abort # "" THEN new.abort
                   ELSE IF new.addr \in Allocated(nl) THEN "address collision"
                   ELSE ""
       IN  IF stop # ""
           THEN [abort |-> stop, nodeList |-> nl, ipAddrs |-> h, interfaces |-> done]
           ELSE Assign([nl EXCEPT ![d.node + 1] = node2],
                       [h EXCEPT !.address = Increment(h.address)],
                       Tail(devices),
                       Append(done, [node |-> d.node, if |-> f]))

\* ---------------------------------------------------------------- mobility
\* mobility.Install(container): a node without a mobility model gets one,
\* hierarchical under the top of the reference stack when the stack is not
\* empty; a node that has one keeps it.
MobilityInstallNode(node, stack) ==
  IF node.mob.kind # "none" THEN node
  ELSE IF stack = <<>>
  THEN [node EXCEPT !.mob = [kind |-> "flat", ref |-> 0]]
  ELSE [node EXCEPT !.mob = [kind |-> "hier", ref |-> Last(stack)]]

RECURSIVE MobilityInstall(_, _, _)
MobilityInstall(nl, container, stack) ==
  IF container = <<>> THEN nl
  ELSE MobilityInstall(
         [nl EXCEPT ![Head(container) + 1] = MobilityInstallNode(@, stack)],
         Tail(container), stack)

\* setMobilityModel(): the object's helper installs on its own container.
setMobilityModel(nl, obj) == MobilityInstall(nl, obj.backbone, obj.mobility)

\* mobility.PushReferenceMobilityModel(node)
PushReferenceMobilityModel(stack, id) == Append(stack, id)

\* ------------------------------------------------------------ constructors
\* AdHocNetwork(backboneNodes): the parent cluster.  net numbers the wifi
\* channel of the object (0 for the parent).  abort is the message of the
\* address helper when it stopped the program: what follows the Assign has
\* not run then.
ParentCtor(nl, n) ==
  LET nl1 == CreateNodes(nl, n)
      backbone == CreatedIds(nl, n)
      nl2 == InstallDevices(nl1, backbone, "wifi", 0)
      devices == DevicesOf(nl2, backbone)
      nl3 == InternetInstall(nl2, backbone)
      a == Assign(nl3, SetBase(BackboneBase, BackboneMask), devices, <<>>)
      obj == [backbone |-> backbone, backboneDevices |-> devices,
              interfaces |-> a.interfaces, ipAddrs |-> NewNetwork(a.ipAddrs),
              mobility |-> <<>>]
  IN  [abort |-> a.abort, nodeList |-> setMobilityModel(a.nodeList, obj),
       obj |-> obj]

ChildStackTargetsWithRouter(created, router) == Append(created, router)

\* The container the child hands to parentAdhoc.internet.Install: the nodes
\* it created, the router being added only afterwards.
ChildStackTargets(created, router) == created

ChildMembersNoRouter(created, router) == created

\* backbone.Add(parentAdhoc.backbone.Get(i)): the router joins last.
ChildMembers(created, router) == Append(created, router)

\* AdHocNetwork(parentAdhoc, infraNodes, i): the child cluster of router i.
ChildCtor(nl, parent, k, idx) ==
  LET nl1 == CreateNodes(nl, k)
      created == CreatedIds(nl, k)
      router == parent.backbone[idx + 1]
      nl2 == InternetInstall(nl1, ChildStackTargets(created, router))
      backbone == ChildMembers(created, router)
      nl3 == InstallDevices(nl2, backbone, "wifi", idx + 1)
      devices == DevicesOf(nl3, backbone)
      a == Assign(nl3, parent.ipAddrs, devices, <<>>)
      obj0 == [backbone |-> backbone, backboneDevices |-> devices,
               interfaces |-> a.interfaces, ipAddrs |-> a.ipAddrs,
               mobility |-> <<>>]
      nl4 == setMobilityModel(a.nodeList, obj0)
  IN  [abort |-> a.abort, nodeList |-> nl4,
       parent |-> [parent EXCEPT !.ipAddrs = NewNetwork(a.ipAddrs)],
       obj |-> [obj0 EXCEPT !.mobility = PushReferenceMobilityModel(@, router)]]

\* ----------------------------------------------------------------- traffic
HasAddress(node, f, a) ==
  /\ f + 1 <= Len(node.ifs)
  /\ a + 1 <= Len(node.ifs[f + 1].addrs)

\* ipv4->GetAddress(f, a).GetLocal()
GetAddress(node, f, a) == node.ifs[f + 1].addrs[a + 1]

OnOffTargetsOnlySender(nl, idx) == <<idx>>

\* The container handed to onoff.Install in iteration idx of the loop.
OnOffTargets(nl, idx) == GetGlobal(nl)

\* onoff.Install(container): one application per node of the container, its
\* Remote attribute set, start and stop times at their defaults.
RECURSIVE OnOffInstall(_, _, _)
OnOffInstall(nl, container, remote) ==
  IF container = <<>> THEN nl
  ELSE OnOffInstall(
         [nl EXCEPT ![Head(container) + 1].apps =
            Append(@, [remote |-> remote, start |-> 0, stop |-> 0])],
         Tail(container), remote)

AppsOf(nl, container) ==
  [x \in 1..Len(container) |->
     [node |-> container[x], app |-> Len(nl[container[x] + 1].apps) - 1]]

\* apps.Start(t) / apps.Stop(t): on every application of the container.
RECURSIVE AppsStart(_, _, _)
AppsStart(nl, container, t) ==
  IF container = <<>> THEN nl
  ELSE LET a == Head(container)
       IN  AppsStart([nl EXCEPT ![a.node + 1].apps[a.app + 1].start = t],
                     Tail(container), t)

RECURSIVE AppsStop(_, _, _)
AppsStop(nl, container, t) ==
  IF container = <<>> THEN nl
  ELSE LET a == Head(container)
       IN  AppsStop([nl EXCEPT ![a.node + 1].apps[a.app + 1].stop = t],
                    Tail(container), t)

\* One iteration of the traffic loop, irand being rand() % GetN().
TrafficBody(nl, idx, irand, stop) ==
  LET addrRand == GetAddress(nl[irand + 1], 1, 0)
      remote == [addr |-> addrRand, port |-> port]
      targets == OnOffTargets(nl, idx)
      nl1 == OnOffInstall(nl, targets, remote)
      installed == AppsOf(nl1, targets)
  IN  [nodeList |-> AppsStop(AppsStart(nl1, installed, StartSeconds), installed, stop),
       apps |-> installed]

\* ------------------------------------------------------ set-up: the actions
\* myadhoc before its declaration is reached: nothing built, an address
\* helper without a base.
NoObject == [backbone |-> <<>>, backboneDevices |-> <<>>, interfaces |-> <<>>,
             ipAddrs |-> DefaultHelper, mobility |-> <<>>]

NoCsv ==
  /\ stats = <<>>
  /\ it = 0
  /\ pending = {}
  /\ valores = <<>>
  /\ cantidades = <<>>
  /\ myfile = <<>>
  /\ resumenfile = <<>>

Init ==
  /\ pc = "csma"
  /\ backboneNodes \in 0..MaxBackbone
  /\ infraNodes \in 0..MaxInfra
  /\ backboneNodes + backboneNodes * infraNodes <= MaxNodes
  /\ stopTime \in StopTimes
  /\ nodeList = <<>>
  /\ myadhoc = NoObject
  /\ clusters = <<>>
  /\ i = 0
  /\ irands = <<>>
  /\ apps = <<>>
  /\ NoCsv

csvVars == <<stats, it, pending, valores, cantidades, myfile, resumenfile>>
inputVars == <<backboneNodes, infraNodes, stopTime>>

\* csma.Install(NodeContainer::GetGlobal()) at the start of main.
ConfigureTracing ==
  /\ pc = "csma"
  /\ nodeList' = CsmaInstall(nodeList)
  /\ pc' = "parent"
  /\ UNCHANGED <<inputVars, myadhoc, clusters, i, irands, apps, csvVars>>

\* AdHocNetwork myadhoc(backboneNodes)
BuildParent ==
  /\ pc = "parent"
  /\ LET r == ParentCtor(nodeList, backboneNodes)
     IN  IF r.abort = ""
         THEN /\ nodeList' = r.nodeList
              /\ myadhoc' = r.obj
              /\ i' = 0
              /\ pc' = "children"
         ELSE /\ pc' = "abort"
              /\ UNCHANGED <<nodeList, myadhoc, i>>
  /\ UNCHANGED <<inputVars, clusters, irands, apps, csvVars>>

\* One pass of the per-backbone loop: AdHocNetwork myadhocinfra(myadhoc,
\* infraNodes, i).  clusters keeps each object as it was when it went out
\* of scope.
BuildChild ==
  /\ pc = "children"
  /\ i < backboneNodes
  /\ LET r == ChildCtor(nodeList, myadhoc, infraNodes, i)
     IN  IF r.abort = ""
         THEN /\ nodeList' = r.nodeList
              /\ myadhoc' = r.parent
              /\ clusters' = Append(clusters, r.obj)
              /\ i' = i + 1
              /\ pc' = pc
         ELSE /\ pc' = "abort"
              /\ UNCHANGED <<nodeList, myadhoc, clusters, i>>
  /\ UNCHANGED <<inputVars, irands, apps, csvVars>>

ChildrenDone ==
  /\ pc = "children"
  /\ i >= backboneNodes
  /\ i' = 0
  /\ pc' = "traffic"
  /\ UNCHANGED <<inputVars, nodeList, myadhoc, clusters, irands, apps, csvVars>>

\* One pass of the traffic loop; irands keeps the value irand took in each
\* pass.  A node without an address on interface 1
\* stops the program.
TrafficIter ==
  /\ pc = "traffic"
  /\ i < Len(nodeList)
  /\ \E irand \in 0..(Len(nodeList) - 1) :
       IF HasAddress(nodeList[irand + 1], 1, 0) /\ HasAddress(nodeList[i + 1], 1, 0)
       THEN LET r == TrafficBody(nodeList, i, irand, stopTime)
            IN  /\ nodeList' = r.nodeList
                /\ apps' = r.apps
                /\ irands' = Append(irands, irand)
                /\ i' = i + 1
                /\ pc' = pc
       ELSE /\ pc' = "abort"
            /\ UNCHANGED <<nodeList, apps, i, irands>>
  /\ UNCHANGED <<inputVars, myadhoc, clusters, csvVars>>

TrafficDone ==
  /\ pc = "traffic"
  /\ i >= Len(nodeList)
  /\ pc' = "run"
  /\ UNCHANGED <<inputVars, nodeList, myadhoc, clusters, i, irands, apps, csvVars>>

Next ==
  \/ ConfigureTracing
  \/ BuildParent
  \/ BuildChild
  \/ ChildrenDone
  \/ TrafficIter
  \/ TrafficDone

Spec == Init /\ [][Next]_vars

\* ------------------------------------------------------------ double values
\* Natural numbers of any size: the sequence of their digits in base 2^15,
\* lowest first, without leading zeros (<<>> is 0).
Base == 32768
Max(a, b) == IF a >= b THEN a ELSE b
Pow2(k) == 2 ^ k

RECURSIVE BigTrim(_)
BigTrim(a) ==
  IF a # <<>> /\ a[Len(a)] = 0 THEN BigTrim(SubSeq(a, 1, Len(a) - 1)) ELSE a

RECURSIVE BigOfInt(_)
BigOfInt(n) == IF n = 0 THEN <<>> ELSE <<n % Base>> \o BigOfInt(n \div Base)

Limb(a, k) == IF k <= Len(a) THEN a[k] ELSE 0

\* -1, 0 or 1 as a < b, a = b or a > b.
BigCmp(a, b) ==
  IF Len(a) # Len(b) THEN (IF Len(a) < Len(b) THEN -1 ELSE 1)
  ELSE LET diff == {k \in 1..Len(a) : a[k] # b[k]}
       IN  IF diff = {} THEN 0
           ELSE LET k == CHOOSE x \in diff : \A y \in diff : y <= x
                IN  IF a[k] < b[k] THEN -1 ELSE 1

RECURSIVE BigAddFrom(_, _, _, _)
BigAddFrom(a, b, k, carry) ==
  IF k > Len(a) /\ k > Len(b) THEN (IF carry = 0 THEN <<>> ELSE <<carry>>)
  ELSE LET s == Limb(a, k) + Limb(b, k) + carry
       IN  <<s % Base>> \o BigAddFrom(a, b, k + 1, s \div Base)

BigAdd(a, b) == BigAddFrom(a, b, 1, 0)

\* a - b for a >= b.
RECURSIVE BigSubFrom(_, _, _, _)
BigSubFrom(a, b, k, borrow) ==
  IF k > Len(a) THEN <<>>
  ELSE LET s == a[k] - Limb(b, k) - borrow
       IN  IF s < 0 THEN <<s + Base>> \o BigSubFrom(a, b, k + 1, 1)
           ELSE <<s>> \o BigSubFrom(a, b, k + 1, 0)

BigSub(a, b) == BigTrim(BigSubFrom(a, b, 1, 0))

\* a * s for 0 <= s < 2^15.
RECURSIVE BigMulSmallFrom(_, _, _, _)
BigMulSmallFrom(a, s, k, carry) ==
  IF k > Len(a) THEN (IF carry = 0 THEN <<>> ELSE <<carry>>)
  ELSE LET p == a[k] * s + carry
       IN  <<p % Base>> \o BigMulSmallFrom(a, s, k + 1, p \div Base)

BigMulSmall(a, s) == IF s = 0 THEN <<>> ELSE BigMulSmallFrom(a, s, 1, 0)

BigShiftLimbs(a, n) == IF a = <<>> THEN <<>> ELSE [k \in 1..n |-> 0] \o a

\* a * b, by halves of b.
RECURSIVE BigMul(_, _)
BigMul(a, b) ==
  IF b = <<>> THEN <<>>
  ELSE IF Len(b) = 1 THEN BigMulSmall(a, b[1])
  ELSE LET h == Len(b) \div 2
       IN  BigAdd(BigMul(a, BigTrim(SubSeq(b, 1, h))),
                  BigShiftLimbs(BigMul(a, SubSeq(b, h + 1, Len(b))), h))

\* a * 2^n and floor(a / 2^n).
BigShl(a, n) == BigShiftLimbs(BigMulSmall(a, Pow2(n % 15)), n \div 15)

BigShr(a, n) ==
  LET drop == n \div 15
      r == n % 15
      rest == IF drop >= Len(a) THEN <<>> ELSE SubSeq(a, drop + 1, Len(a))
  IN  BigTrim([k \in 1..Len(rest) |->
                 (rest[k] \div Pow2(r)) + (Limb(rest, k + 1) % Pow2(r)) * Pow2(15 - r)])

RECURSIVE BitLen(_)
BitLen(n) == IF n = 0 THEN 0 ELSE 1 + BitLen(n \div 2)

BigBitLen(a) == IF a = <<>> THEN 0 ELSE 15 * (Len(a) - 1) + BitLen(a[Len(a)])

\* Bit n of a, bit 0 the lowest.
BigBit(a, n) == (Limb(a, n \div 15 + 1) \div Pow2(n % 15)) % 2

\* Whether the n lowest bits of a are all 0.
BigLowZero(a, n) ==
  /\ \A k \in 1..(n \div 15) : Limb(a, k) = 0
  /\ Limb(a, n \div 15 + 1) % Pow2(n % 15) = 0

RECURSIVE BigPow10(_)
BigPow10(k) ==
  IF k = 0 THEN <<1>>
  ELSE LET h == BigPow10(k \div 2)
           sq == BigMul(h, h)
       IN  IF k % 2 = 1 THEN BigMulSmall(sq, 10) ELSE sq

\* floor(p / q) and the remainder left, for p < q * 2^bits.
RECURSIVE BigDivSmall(_, _, _, _)
BigDivSmall(p, q, bits, acc) ==
  IF bits = 0 THEN [quot |-> acc, rem |-> p]
  ELSE LET t == BigShl(q, bits - 1)
       IN  IF BigCmp(p, t) >= 0
           THEN BigDivSmall(BigSub(p, t), q, bits - 1, acc + Pow2(bits - 1))
           ELSE BigDivSmall(p, q, bits - 1, acc)

\* A double is its class k ("fin", "inf" or "nan"), its sign bit s and, when
\* finite, the value m * 2^e with m of 53 bits (of fewer at the least exponent
\* MinExp: a subnormal; m = <<>> and e = 0 for zero).  Every operation rounds
\* its exact result to the nearest double, ties to even.  A NaN is the one the
\* x86-64 produces, with its sign bit set.
Precision == 53
MinExp == -1074
MaxExp == 971

DNaN == [k |-> "nan", s |-> 1, m |-> <<>>, e |-> 0]
DInf(s) == [k |-> "inf", s |-> s, m |-> <<>>, e |-> 0]
DSignedZero(s) == [k |-> "fin", s |-> s, m |-> <<>>, e |-> 0]
DZero == DSignedZero(0)
IsNaN(x) == x.k = "nan"
IsInf(x) == x.k = "inf"
IsZero(x) == x.k = "fin" /\ x.m = <<>>
Xor(a, b) == (a + b) % 2

\* The finite double (-1)^s * m * 2^e, or what it overflows to.
DFinite(s, m, e) ==
  IF m = <<>> THEN DSignedZero(s)
  ELSE IF e > MaxExp THEN DInf(s)
  ELSE [k |-> "fin", s |-> s, m |-> m, e |-> e]

\* A rounded significand r of at most Precision + 1 bits, brought back to
\* Precision bits.
Renormalise(s, r, e) ==
  IF BigBitLen(r) > Precision THEN DFinite(s, BigShr(r, 1), e + 1)
  ELSE DFinite(s, r, e)

\* Ties to even: q = floor(n / 2^sh) is rounded up when what is dropped
\* exceeds a half, or is a half and q is odd.
RoundUp(n, sh, sticky, q) ==
  /\ BigBit(n, sh - 1) = 1
  /\ sticky \/ ~BigLowZero(n, sh - 1) \/ Limb(q, 1) % 2 = 1

RoundedShift(n, sh, sticky, q) ==
  IF RoundUp(n, sh, sticky, q) THEN BigAdd(q, <<1>>) ELSE q

\* The same, to a significand with sh bits dropped (sh > 0) or -sh zero bits
\* appended.
PackShifted(s, n, e, sticky, sh) ==
  IF sh <= 0 THEN DFinite(s, BigShl(n, -sh), e + sh)
  ELSE Renormalise(s, RoundedShift(n, sh, sticky, BigShr(n, sh)), e + sh)

\* The double nearest to (-1)^s * (n + f) * 2^e, where 0 < f < 1 when sticky
\* and f = 0 otherwise.
Pack(s, n, e, sticky) ==
  IF n = <<>> THEN DSignedZero(s)
  ELSE PackShifted(s, n, e, sticky, Max(BigBitLen(n) - Precision, MinExp - e))

\* Conversion of an integer to double.
DOfBig(s, n) == Pack(s, n, 0, FALSE)
DOfInt(n) == IF n < 0 THEN DOfBig(1, BigOfInt(-n)) ELSE DOfBig(0, BigOfInt(n))

DNeg(x) == [x EXCEPT !.s = 1 - x.s]

DMul(x, y) ==
  IF IsNaN(x) \/ IsNaN(y) THEN DNaN
  ELSE IF IsInf(x) \/ IsInf(y)
  THEN (IF IsZero(x) \/ IsZero(y) THEN DNaN ELSE DInf(Xor(x.s, y.s)))
  ELSE Pack(Xor(x.s, y.s), BigMul(x.m, y.m), x.e + y.e, FALSE)

\* The n lowest digits of floor(r * Base^n / d), for r < d, and whether a
\* remainder is left: long division, digit by digit.
RECURSIVE DivDigits(_, _, _)
PushDigit(rest, digit) ==
  [quot |-> Append(rest.quot, digit), sticky |-> rest.sticky]

DivNext(digit, d, n) == PushDigit(DivDigits(digit.rem, d, n - 1), digit.quot)

DivDigits(r, d, n) ==
  IF n = 0 THEN [quot |-> <<>>, sticky |-> r # <<>>]
  ELSE DivNext(BigDivSmall(BigShiftLimbs(r, 1), d, 15, 0), d, n)

\* A significand brought to 53 bits, and the exponent that goes with it.
Normal(m) == BigShl(m, Precision - BigBitLen(m))
NormalExp(x) == x.e - (Precision - BigBitLen(x.m))

\* n / d * 2^(e + 60) for significands of 53 bits: the quotient lies between
\* 1/2 and 2, its first 61 bits hold more than 53 significant ones.
DivPack(s, first, q, e) ==
  Pack(s, BigTrim(Append(q.quot, first.quot)), e, q.sticky)

DivFrom(s, first, d, e) == DivPack(s, first, DivDigits(first.rem, d, 4), e)

DivNormal(s, n, d, e) == DivFrom(s, BigDivSmall(n, d, 1, 0), d, e)

DDiv(x, y) ==
  IF IsNaN(x) \/ IsNaN(y) THEN DNaN
  ELSE IF IsInf(x) THEN (IF IsInf(y) THEN DNaN ELSE DInf(Xor(x.s, y.s)))
  ELSE IF IsInf(y) THEN DSignedZero(Xor(x.s, y.s))
  ELSE IF IsZero(y) THEN (IF IsZero(x) THEN DNaN ELSE DInf(Xor(x.s, y.s)))
  ELSE IF IsZero(x) THEN DSignedZero(Xor(x.s, y.s))
  ELSE DivNormal(Xor(x.s, y.s), Normal(x.m), Normal(y.m),
                 NormalExp(x) - NormalExp(y) - 60)

\* nx * 2^e and ny * 2^e with the signs sx and sy, added.
AddAligned(sx, sy, nx, ny, e) ==
  IF sx = sy THEN Pack(sx, BigAdd(nx, ny), e, FALSE)
  ELSE IF BigCmp(nx, ny) = 0 THEN DZero
  ELSE IF BigCmp(nx, ny) > 0 THEN Pack(sx, BigSub(nx, ny), e, FALSE)
  ELSE Pack(sy, BigSub(ny, nx), e, FALSE)

AddAt(x, y, e) ==
  AddAligned(x.s, y.s, BigShl(x.m, x.e - e), BigShl(y.m, y.e - e), e)

DAdd(x, y) ==
  IF IsNaN(x) \/ IsNaN(y) THEN DNaN
  ELSE IF IsInf(x) THEN (IF IsInf(y) /\ x.s # y.s THEN DNaN ELSE x)
  ELSE IF IsInf(y) THEN y
  ELSE IF IsZero(x) /\ IsZero(y) THEN DSignedZero(x.s * y.s)
  ELSE IF IsZero(x) THEN y
  ELSE IF IsZero(y) THEN x
  ELSE AddAt(x, y, IF x.e <= y.e THEN x.e ELSE y.e)

DSub(x, y) == DAdd(x, DNeg(y))

\* Time::GetSeconds() of a time stamp kept in milliseconds: the double
\* nearest to ms / 1000.
GetSeconds(ms) == DDiv(DOfInt(ms), DOfInt(1000))

\* ------------------------------------------------------------ stream output
\* A line of a file is the sequence of the pieces streamed into it: the
\* separator ";" is a piece of its own, a literal without a separator is one
\* piece, a number or an address is streamed character by character.
Digit(k) == CASE k = 0 -> "0" [] k = 1 -> "1" [] k = 2 -> "2" [] k = 3 -> "3"
              [] k = 4 -> "4" [] k = 5 -> "5" [] k = 6 -> "6" [] k = 7 -> "7"
              [] k = 8 -> "8" [] k = 9 -> "9"

\* operator<< of an unsigned integer.
RECURSIVE FmtUint(_)
FmtUint(n) == IF n < 10 THEN <<Digit(n)>> ELSE Append(FmtUint(n \div 10), Digit(n % 10))

\* operator<< of an Ipv4Address: dotted decimal.
FmtAddress(addr) ==
  FmtUint(addr[1]) \o <<".">> \o FmtUint(addr[2]) \o <<".">>
    \o FmtUint(addr[3]) \o <<".">> \o FmtUint(addr[4])

\* floor(log10) of the positive value p / q, searched from the guess x:
\* 10^x <= p / q < 10^(x + 1).
RECURSIVE Exp10(_, _, _)
Exp10(p, q, x) ==
  LET lo == IF x >= 0 THEN BigCmp(p, BigMul(q, BigPow10(x)))
            ELSE BigCmp(BigMul(p, BigPow10(-x)), q)
      hi == IF x + 1 >= 0 THEN BigCmp(p, BigMul(q, BigPow10(x + 1)))
            ELSE BigCmp(BigMul(p, BigPow10(-x - 1)), q)
  IN  IF lo < 0 THEN Exp10(p, q, x - 1)
      ELSE IF hi >= 0 THEN Exp10(p, q, x + 1)
      ELSE x

RECURSIVE StripZeros(_)
StripZeros(s) ==
  IF s # <<>> /\ Last(s) = "0" THEN StripZeros(SubSeq(s, 1, Len(s) - 1)) ELSE s

Zeros(k) == [x \in 1..k |-> "0"]

\* The text of the 6 digits ds with the decimal exponent e, as %g lays it
\* out: fixed notation for -4 <= e < 6, scientific otherwise, trailing zeros
\* of the fraction dropped.
FmtDigits(ds, e) ==
    LET point(f) == IF f = <<>> THEN <<>> ELSE <<".">> \o f
        a == IF e < 0 THEN -e ELSE e
    IN  IF e >= 0 /\ e < 6
        THEN SubSeq(ds, 1, e + 1) \o point(StripZeros(SubSeq(ds, e + 2, 6)))
        ELSE IF e < 0 /\ e >= -4
        THEN <<"0", ".">> \o Zeros(-e - 1) \o StripZeros(ds)
        ELSE <<ds[1]>> \o point(StripZeros(SubSeq(ds, 2, 6)))
               \o <<"e", IF e < 0 THEN "-" ELSE "+">>
               \o (IF a < 10 THEN <<"0">> ELSE <<>>) \o FmtUint(a)

\* Rounding up may carry into a seventh digit.
FmtCarry(up, e) ==
  IF up = 1000000 THEN FmtDigits(FmtUint(100000), e + 1)
  ELSE FmtDigits(FmtUint(up), e)

\* quot is floor(p / q), twice compares twice the remainder with q: the
\* exact value is rounded to the nearest 6 digits, ties to even.
FmtRound(quot, twice, e) ==
  FmtCarry(IF twice > 0 \/ (twice = 0 /\ quot % 2 = 1) THEN quot + 1 ELSE quot, e)

FmtQuotient(sig, q, e) ==
  FmtRound(sig.quot, BigCmp(BigMulSmall(sig.rem, 2), q), e)

\* p / q scaled to 6 digits before the point.
FmtAt(p, q, e) ==
  IF e < 5 THEN FmtQuotient(BigDivSmall(BigMul(p, BigPow10(5 - e)), q, 20, 0), q, e)
  ELSE FmtQuotient(BigDivSmall(p, BigMul(q, BigPow10(e - 5)), 20, 0),
                   BigMul(q, BigPow10(e - 5)), e)

\* A guess at floor(log10) of a value of b + 1 bits before the binary point.
Log10Guess(b) ==
  IF b >= 0 THEN (b * 30103) \div 100000 ELSE -(((-b) * 30103) \div 100000) - 1

FmtFraction(p, q, guess) == FmtAt(p, q, Exp10(p, q, guess))

\* The digits of a positive finite double at 6 significant digits (%g): the
\* exact binary value m * 2^e is rounded to 6 digits, ties to even.
FmtPositive(x) ==
  FmtFraction(IF x.e >= 0 THEN BigShl(x.m, x.e) ELSE x.m,
              IF x.e < 0 THEN BigShl(<<1>>, -x.e) ELSE <<1>>,
              Log10Guess(BigBitLen(x.m) + x.e - 1))

\* operator<< of a double at the stream's default precision; glibc writes
\* the NaN with its sign, "-nan".
FmtDouble(x) ==
  IF IsNaN(x) THEN (IF x.s = 1 THEN <<"-">> ELSE <<>>) \o <<"n", "a", "n">>
  ELSE IF IsInf(x) THEN (IF x.s = 1 THEN <<"-">> ELSE <<>>) \o <<"i", "n", "f">>
  ELSE IF IsZero(x) THEN (IF x.s = 1 THEN <<"-">> ELSE <<>>) \o <<"0">>
  ELSE IF x.s = 1 THEN <<"-">> \o FmtPositive(DNeg(x))
  ELSE FmtPositive(x)

\* Number of ";"-separated fields of a line.
Fields(line) == Cardinality({x \in DOMAIN line : line[x] = ";"}) + 1

\* ------------------------------------------------------------ the statistics
DataHeader ==
  <<"Source Address", ";", "Destination Address", ";", "TxBytes", ";",
    "RxBytes", ";", "FirstTxPacket", ";", "LastTxPacket", ";", "Duration", ";",
    "Delay", ";", "Jitter", ";", "LostPackets", ";", "TxBitrate", ";",
    "average traffic">>

ResumenHeader == <<"Source Address", ";", "average traffic">>

\* buffer << t.sourceAddress << ";" << t.destinationAddress
Contenido(f) == FmtAddress(f.src) \o <<";">> \o FmtAddress(f.dst)

Duration(f) == DSub(GetSeconds(f.timeLastTxPacket), GetSeconds(f.timeFirstTxPacket))
Bitrate(f) ==
  DDiv(DDiv(DMul(DOfInt(f.txBytes), DOfInt(8)),
            DSub(GetSeconds(f.timeLastTxPacket), GetSeconds(f.timeFirstTxPacket))),
       DOfInt(1000))
Timemax(f) == GetSeconds(f.timeLastTxPacket)
Percentage(f) == DDiv(Duration(f), Timemax(f))
Average(f) == DMul(Bitrate(f), Percentage(f))
Delay(f) == DDiv(GetSeconds(f.delaySum), DOfInt(f.rxPackets))
\* rxPackets - 1 is unsigned 32-bit arithmetic: it wraps to 2^32 - 1 for a flow
\* without a received packet.
PacketsMinusOne(rxPackets) ==
  IF rxPackets = 0 THEN BigSub(BigShl(<<1>>, 32), <<1>>) ELSE BigOfInt(rxPackets - 1)

Jitter(f) == DDiv(GetSeconds(f.jitterSum), DOfBig(0, PacketsMinusOne(f.rxPackets)))

MapAssign(m, key, x) ==
  [k \in DOMAIN m \cup {key} |-> IF k = key THEN x ELSE m[k]]

\* m[key] += x, operator[] inserting 0.0 for a key that is new.
MapAdd(m, key, x) ==
  LET cur == IF key \in DOMAIN m THEN m[key] ELSE DZero
  IN  [k \in DOMAIN m \cup {key} |-> IF k = key THEN DAdd(cur, x) ELSE m[k]]

\* The line of data.csv of one flow.
DataLine(f) ==
  FmtAddress(f.src) \o <<";">> \o FmtAddress(f.dst) \o <<";">>
    \o FmtUint(f.txBytes) \o <<";">> \o FmtUint(f.rxBytes) \o <<";">>
    \o FmtDouble(GetSeconds(f.timeFirstTxPacket)) \o <<";">>
    \o FmtDouble(Timemax(f)) \o <<";">> \o FmtDouble(Duration(f)) \o <<";">>
    \o FmtDouble(Delay(f)) \o <<";">> \o FmtDouble(Jitter(f)) \o <<";">>
    \o FmtUint(f.lostPackets) \o <<";">> \o FmtDouble(Bitrate(f)) \o <<";">>
    \o FmtDouble(Average(f))

\* The line of resumen.csv of one entry of valores.
ResumenLine(key, value, count) ==
  key \o <<";">> \o FmtDouble(value) \o <<";">> \o FmtDouble(count)

\* ------------------------------------------------------ the dump: actions
\* The whole set-up for n routers and k infra nodes each, as the actions
\* above run it.
RECURSIVE SetupChildren(_, _, _, _, _)
SetupChildren(nl, parent, done, k, n) ==
  IF Len(done) >= n THEN [nodeList |-> nl, myadhoc |-> parent, clusters |-> done]
  ELSE LET r == ChildCtor(nl, parent, k, Len(done))
       IN  SetupChildren(r.nodeList, r.parent, Append(done, r.obj), k, n)

AfterSetup(n, k) ==
  LET r == ParentCtor(CsmaInstall(<<>>), n)
  IN  SetupChildren(r.nodeList, r.obj, <<>>, k, n)

\* The traffic loop with the given values of irand, one per pass.
RECURSIVE AfterTraffic(_, _, _, _)
AfterTraffic(nl, draws, idx, stop) ==
  IF idx >= Len(nl) THEN [nodeList |-> nl, apps |-> <<>>]
  ELSE LET r == TrafficBody(nl, idx, draws[idx + 1], stop)
       IN  IF idx + 1 >= Len(nl) THEN r
           ELSE AfterTraffic(r.nodeList, draws, idx + 1, stop)

\* Counters a flow monitor can report for one flow; times in milliseconds.
\* A flow without a received packet has no delay and no jitter summed up.
FlowCounters ==
  { [txBytes |-> 98304, rxBytes |-> 98304, timeFirstTxPacket |-> 3000,
     timeLastTxPacket |-> 5000, delaySum |-> 2022, jitterSum |-> 4,
     rxPackets |-> 192, lostPackets |-> 0],
    [txBytes |-> 1500, rxBytes |-> 0, timeFirstTxPacket |-> 4000,
     timeLastTxPacket |-> 4000, delaySum |-> 0, jitterSum |-> 0,
     rxPackets |-> 0, lostPackets |-> 1],
    [txBytes |-> 1000035, rxBytes |-> 1000, timeFirstTxPacket |-> 3000,
     timeLastTxPacket |-> 8000, delaySum |-> 5, jitterSum |-> 0,
     rxPackets |-> 1, lostPackets |-> 1] }

\* The address a node sends from: that of its interface 1.
NodeAddresses(node) == {GetAddress(node, 1, 0)}

Flow(src, dst, c) ==
  [src |-> src, dst |-> dst, txBytes |-> c.txBytes, rxBytes |-> c.rxBytes,
   timeFirstTxPacket |-> c.timeFirstTxPacket,
   timeLastTxPacket |-> c.timeLastTxPacket, delaySum |-> c.delaySum,
   jitterSum |-> c.jitterSum, rxPackets |-> c.rxPackets,
   lostPackets |-> c.lostPackets]

\* The flows the monitor can hold after the run: from a node to the
\* destination of one of its applications on another node.
PossibleFlows(nl) ==
  UNION { { Flow(src, nl[n].apps[a].remote.addr, c) :
              src \in NodeAddresses(nl[n]) \ {nl[n].apps[a].remote.addr},
              c \in FlowCounters } :
          n \in DOMAIN nl, a \in 1..Len(nl) }

\* The state after Simulator::Run() of one router with one infra node:
\* stats is the flow map in FlowId order, each flow with its five-tuple.
InitCsv ==
  /\ pc = "stats"
  /\ backboneNodes = 1
  /\ infraNodes = 1
  /\ stopTime = 10
  /\ \E draws \in [1..2 -> 0..1], st \in {AfterSetup(1, 1)} :
       \E tr \in {AfterTraffic(st.nodeList, draws, 0, stopTime)} :
         /\ nodeList = tr.nodeList
         /\ apps = tr.apps
         /\ myadhoc = st.myadhoc
         /\ clusters = st.clusters
         /\ irands = draws
         /\ i = Len(tr.nodeList)
  /\ \E n \in 0..MaxFlows : stats \in [1..n -> PossibleFlows(nodeList)]
  /\ it = 0
  /\ pending = {}
  /\ valores = <<>>
  /\ cantidades = <<>>
  /\ myfile = <<>>
  /\ resumenfile = <<>>

setupVars == <<backboneNodes, infraNodes, stopTime, nodeList, myadhoc,
               clusters, i, irands, apps>>

\* std::ofstream myfile("data.csv") and its header line.
OpenData ==
  /\ pc = "stats"
  /\ myfile' = <<DataHeader>>
  /\ it' = 1
  /\ pc' = "data"
  /\ UNCHANGED <<setupVars, stats, pending, valores, cantidades, resumenfile>>

\* One pass of the loop over the flows.
DataRow ==
  /\ pc = "data"
  /\ it <= Len(stats)
  /\ LET f == stats[it]
         contenido == Contenido(f)
     IN  /\ valores' = MapAdd(valores, contenido, DMul(Percentage(f), Bitrate(f)))
         /\ cantidades' = MapAdd(cantidades, contenido, DOfInt(1))
         /\ myfile' = Append(myfile, DataLine(f))
  /\ it' = it + 1
  /\ UNCHANGED <<pc, setupVars, stats, pending, resumenfile>>

\* std::ofstream resumenfile("resumen.csv") and its header line; pending is
\* what the loop over valores has still to visit.
OpenResumen ==
  /\ pc = "data"
  /\ it > Len(stats)
  /\ resumenfile' = <<ResumenHeader>>
  /\ pending' = DOMAIN valores
  /\ pc' = "resumen"
  /\ UNCHANGED <<setupVars, stats, it, valores, cantidades, myfile>>

\* One pass of the loop over valores, an unordered map: any entry left.
ResumenRow ==
  /\ pc = "resumen"
  /\ \E key \in pending :
       /\ resumenfile' = Append(resumenfile,
                                ResumenLine(key, valores[key], cantidades[key]))
       /\ pending' = pending \ {key}
  /\ UNCHANGED <<pc, setupVars, stats, it, valores, cantidades, myfile>>

CloseFiles ==
  /\ pc = "resumen"
  /\ pending = {}
  /\ pc' = "done"
  /\ UNCHANGED <<setupVars, stats, it, pending, valores, cantidades, myfile,
                 resumenfile>>

NextCsv ==
  \/ OpenData
  \/ DataRow
  \/ OpenResumen
  \/ ResumenRow
  \/ CloseFiles

SpecCsv == InitCsv /\ [][NextCsv]_vars

\* ------------------------------------------------- what the set-up produces
\* The construction loops have finished.
Built == pc \in {"traffic", "run"}

Range(s) == {s[x] : x \in DOMAIN s}
BackboneIds == Range(myadhoc.backbone)
\* The child clusters (1-based positions: cluster c belongs to router c - 1)
\* that hold node id.
ClustersOf(id) == {c \in DOMAIN clusters : id \in Range(clusters[c].backbone)}
InterfaceAddress(ref) == GetAddress(nodeList[ref.node + 1], ref.if, 0)
Subnet24(addr) == Ipv4(addr[1], addr[2], addr[3], 0)
\* Every (node, interface, address) slot that is not the loopback's.
AssignedSlots ==
  UNION { UNION { {<<n, f, a>> : a \in DOMAIN nodeList[n].ifs[f].addrs} :
                  f \in {g \in DOMAIN nodeList[n].ifs :
                           nodeList[n].devs[nodeList[n].ifs[g].dev + 1].type # "lo"} } :
          n \in DOMAIN nodeList }
SlotAddress(s) == nodeList[s[1]].ifs[s[2]].addrs[s[3]]

\* C1: once the parent and the per-backbone loop are done there are exactly
\* N child clusters and N + N*K nodes; child cluster i has K + 1 members, of
\* which exactly one is a backbone node, backbone node i; every node, backbone
\* or not, belongs to exactly one child cluster.
C1_ClusterShape ==
  Built =>
    /\ Len(clusters) = backboneNodes
    /\ Len(myadhoc.backbone) = backboneNodes
    /\ Len(nodeList) = backboneNodes + backboneNodes * infraNodes
    /\ \A c \in DOMAIN clusters :
         /\ Len(clusters[c].backbone) = infraNodes + 1
         /\ Cardinality(Range(clusters[c].backbone)) = infraNodes + 1
         /\ Range(clusters[c].backbone) \cap BackboneIds = {myadhoc.backbone[c]}
    /\ \A id \in 0..(Len(nodeList) - 1) : Cardinality(ClustersOf(id)) = 1

C1_Witness ==
  /\ pc = "run"
  /\ backboneNodes = 2
  /\ infraNodes = 1
  /\ Len(clusters) = 2
  /\ Len(nodeList) = 4

\* C2: for N <= 254 and K <= 253 the backbone interfaces are in
\* 192.168.0.0/24, the interfaces of child cluster i in 192.168.(i+1).0/24, no
\* two clusters share a subnet and all assigned addresses are pairwise
\* distinct.
C2_Addressing ==
  (Built /\ backboneNodes <= 254 /\ infraNodes <= 253) =>
    /\ \A x \in DOMAIN myadhoc.interfaces :
         Subnet24(InterfaceAddress(myadhoc.interfaces[x])) = Ipv4(192, 168, 0, 0)
    /\ \A c \in DOMAIN clusters : \A x \in DOMAIN clusters[c].interfaces :
         Subnet24(InterfaceAddress(clusters[c].interfaces[x])) = Ipv4(192, 168, c, 0)
    /\ Len(myadhoc.interfaces) = backboneNodes
    /\ \A c \in DOMAIN clusters : Len(clusters[c].interfaces) = infraNodes + 1
    /\ LET slots == AssignedSlots
       IN  /\ Cardinality({SlotAddress(s) : s \in slots}) = Cardinality(slots)
           /\ Cardinality(slots) = backboneNodes + backboneNodes * (infraNodes + 1)

C2_Witness ==
  /\ pc = "run"
  /\ backboneNodes = 2
  /\ infraNodes = 1
  /\ Len(clusters) = 2
  /\ InterfaceAddress(clusters[2].interfaces[2]) = Ipv4(192, 168, 2, 2)
  /\ InterfaceAddress(myadhoc.interfaces[2]) = Ipv4(192, 168, 0, 2)

\* C5: with K = infraNodes >= 1, each router's local 802.11 network has K - 1
\* additional hosts, K members counting the router.
C5_LocalNetSize ==
  (Built /\ infraNodes >= 1) =>
    \A c \in DOMAIN clusters : Len(clusters[c].backbone) = infraNodes

\* C6: once setup is complete every backbone node carries at least one CSMA
\* device.
C6_BackboneHasCsma ==
  pc = "run" =>
    \A id \in BackboneIds :
      \E d \in DOMAIN nodeList[id + 1].devs : nodeList[id + 1].devs[d].type = "csma"

\* C7: in every child cluster the infra nodes got their mobility model while
\* router i was the reference model: each is hierarchical under its router.
C7_HierarchicalMobility ==
  Built =>
    \A c \in DOMAIN clusters : \A id \in Range(clusters[c].backbone) :
      id # myadhoc.backbone[c] =>
        nodeList[id + 1].mob = [kind |-> "hier", ref |-> myadhoc.backbone[c]]

\* C8: pass i of the traffic loop puts one application on every node, all
\* with the interface-1 address of node irand and port 9 as destination,
\* started at 3 s and stopped at stopTime; after the loop every one of the G
\* nodes carries exactly G applications.
C8_Traffic ==
  Built =>
    /\ Len(irands) = i
    /\ pc = "run" => i = Len(nodeList)
    /\ \A n \in DOMAIN nodeList :
         /\ Len(nodeList[n].apps) = i
         /\ \A a \in 1..Len(nodeList[n].apps) :
              nodeList[n].apps[a] =
                [remote |-> [addr |-> GetAddress(nodeList[irands[a] + 1], 1, 0),
                             port |-> 9],
                 start |-> 3, stop |-> stopTime]

C8_Witness ==
  /\ pc = "run"
  /\ Len(nodeList) = 4
  /\ irands = <<3, 0, 0, 2>>
  /\ \A n \in DOMAIN nodeList : Len(nodeList[n].apps) = 4

\* C9: the internet stack is installed exactly once on every node and before
\* its first address assignment (interface 0 is the stack's loopback); when the
\* traffic loop starts every node has an address on interface 1, the
\* 192.168.0.0/24 address for a backbone node, whose child-cluster address is
\* on interface 2, and the child-cluster address for an infra node.
C9_StackAndInterfaces ==
  /\ \A n \in DOMAIN nodeList :
       /\ nodeList[n].stack = 1
       /\ Len(nodeList[n].ifs) >= 1
       /\ nodeList[n].ifs[1].addrs = <<Loopback>>
  /\ Built =>
       \A id \in 0..(Len(nodeList) - 1) :
         LET node == nodeList[id + 1]
             c == CHOOSE c \in ClustersOf(id) : TRUE
         IN  /\ HasAddress(node, 1, 0)
             /\ IF id \in BackboneIds
                THEN /\ Subnet24(GetAddress(node, 1, 0)) = Ipv4(192, 168, 0, 0)
                     /\ HasAddress(node, 2, 0)
                     /\ Subnet24(GetAddress(node, 2, 0)) = Ipv4(192, 168, c, 0)
                ELSE Subnet24(GetAddress(node, 1, 0)) = Ipv4(192, 168, c, 0)

C9_Witness ==
  /\ pc = "traffic"
  /\ i = 0
  /\ backboneNodes = 2
  /\ infraNodes = 1
  /\ GetAddress(nodeList[2], 1, 0) = Ipv4(192, 168, 0, 2)
  /\ GetAddress(nodeList[2], 2, 0) = Ipv4(192, 168, 2, 2)
  /\ GetAddress(nodeList[4], 1, 0) = Ipv4(192, 168, 2, 1)

\* ------------------------------------------------- what the dump produces
DataRows == SubSeq(myfile, 2, Len(myfile))
ResumenRows == SubSeq(resumenfile, 2, Len(resumenfile))
\* The (source, destination) pairs occurring among the flows.
Pairs == {<<stats[x].src, stats[x].dst>> : x \in DOMAIN stats}
FlowsOf(pair) == {x \in DOMAIN stats : <<stats[x].src, stats[x].dst>> = pair}

\* Sum over the flows of a pair, in flow order, of
\* bitrate * (Duration / timeLastTxPacket).
RECURSIVE SumOver(_, _)
SumOver(pair, upto) ==
  IF upto = 0 THEN DZero
  ELSE IF upto \in FlowsOf(pair)
  THEN DAdd(SumOver(pair, upto - 1),
            DMul(Bitrate(stats[upto]),
                 DDiv(Duration(stats[upto]), GetSeconds(stats[upto].timeLastTxPacket))))
  ELSE SumOver(pair, upto - 1)

RECURSIVE CountSum(_, _)
CountSum(m, keys) ==
  IF keys = {} THEN DZero
  ELSE LET k == CHOOSE k \in keys : TRUE
       IN  DAdd(m[k], CountSum(m, keys \ {k}))

\* The resumen.csv row the flows of a pair call for.
ExpectedResumenRow(pair) ==
  FmtAddress(pair[1]) \o <<";">> \o FmtAddress(pair[2]) \o <<";">>
    \o FmtDouble(SumOver(pair, Len(stats))) \o <<";">>
    \o FmtUint(Cardinality(FlowsOf(pair)))

\* C3: in both files every data row has as many ";"-separated fields as the
\* file's header: 12 in data.csv, 2 in resumen.csv.
C3_RowsMatchHeader ==
  /\ myfile # <<>> => Fields(myfile[1]) = 12
  /\ \A r \in DOMAIN DataRows : Fields(DataRows[r]) = Fields(myfile[1])
  /\ resumenfile # <<>> => Fields(resumenfile[1]) = 2
  /\ \A r \in DOMAIN ResumenRows : Fields(ResumenRows[r]) = Fields(resumenfile[1])

\* C4: data.csv has one row per flow, resumen.csv one row per distinct
\* (source, destination) pair; the row of a pair carries the number of flows
\* of the pair and the sum over them of bitrate * (Duration /
\* timeLastTxPacket); the counts add up to the number of data.csv rows.
C4_Summary ==
  pc = "done" =>
    /\ Len(DataRows) = Len(stats)
    /\ Len(ResumenRows) = Cardinality(Pairs)
    /\ Range(ResumenRows) = {ExpectedResumenRow(pair) : pair \in Pairs}
    /\ \A k \in DOMAIN cantidades : \E n \in 1..Len(stats) : cantidades[k] = DOfInt(n)
    /\ CountSum(cantidades, DOMAIN cantidades) = DOfInt(Len(DataRows))

C4_Witness ==
  /\ pc = "done"
  /\ Len(stats) = 2
  /\ stats[1].txBytes = 98304
  /\ stats[2].txBytes = 1000035
  /\ SubSeq(DataRows[2], Len(DataRows[2]) - 6, Len(DataRows[2]))
       = <<"1", "0", "0", "0", ".", "0", "4">>
  /\ Pairs = {<<Ipv4(192, 168, 1, 1), Ipv4(192, 168, 0, 1)>>}
  /\ Len(ResumenRows) = 1
  /\ Len(DataRows) = 2

====
